---- MODULE Spec2Model ----
(***************************************************************************)
(* Model of sync_one: the ignore matcher (src/src/gitignore.hpp) and the   *)
(* mirror engine (src/src/sync.cpp).                                       *)
(*                                                                         *)
(* Strings are TLA+ strings; a character is a string of length 1.  File    *)
(* trees map the relative paths of a fixed universe to entries.            *)
(***************************************************************************)
EXTENDS Integers, Sequences, FiniteSets, TLC

\* ------------------------------------------------------------------ bounds
\* Raw lines per rules file in the matcher specification.
MaxLines == 3
\* Modification times are 1..MaxTime.
MaxTime == 2
\* File contents are 1..NumContents; see file_size.
NumContents == 3
\* Successive invocations of the tool on the same pair of trees.
MaxRuns == 2

VARIABLES
  lines,       \* main: the raw rule lines read from the rules file
  li,          \* GitIgnore::GitIgnore: how many lines the loop has consumed
  rules_,      \* GitIgnore::rules_: sequence of pairs [first, second]
  qpath,       \* the path handed to GitIgnore::isIgnored
  qres,        \* the value GitIgnore::isIgnored returned for qpath
  pc,          \* position of the program
  srcRoot,     \* whether the source root directory exists
  dstRoot,     \* whether the destination root directory exists
  src,         \* the source tree: relative path -> entry
  dst,         \* the destination tree: relative path -> entry
  lib,         \* which option the build's copy_file obeys when given both
  run,         \* which invocation of the tool this is
  toRemove,    \* mirror: the removal list (relative paths)
  ri,          \* mirror: index of the next entry of toRemove
  visited,     \* mirror: source entries the copy pass has been handed
  cur,         \* mirror: the entry the source iterator stands on
  log,         \* the action log of this invocation
  attempts,    \* files for which this invocation entered the copy branch
  faults,      \* files whose copy the environment made fail, this invocation
  prev         \* the previous invocation: how it ended, its log, its faults

mvars == <<lines, li, rules_, qpath, qres>>
fvars == <<srcRoot, dstRoot, src, dst, lib>>
evars == <<run, toRemove, ri, visited, cur, log, attempts, faults, prev>>
vars == <<lines, li, rules_, qpath, qres, pc, srcRoot, dstRoot, src, dst, lib,
          run, toRemove, ri, visited, cur, log, attempts, faults, prev>>

\* --------------------------------------------------------- string helpers
Char(s, i) == SubSeq(s, i, i)

Last(s) == Char(s, Len(s))

\* std::string::find(pattern) != npos
match(path, pattern) ==
  \E i \in 0..(Len(path) - Len(pattern)) :
     SubSeq(path, i + 1, i + Len(pattern)) = pattern

\* std::replace(p.begin(), p.end(), '\\', '/')
RECURSIVE replace(_)
replace(p) ==
  IF p = "" THEN ""
  ELSE (IF Char(p, 1) = "\\" THEN "/" ELSE Char(p, 1))
         \o replace(SubSeq(p, 2, Len(p)))

\* r.erase(r.find_last_not_of(" \r\n\t") + 1)
RECURSIVE erase_trailing(_)
erase_trailing(r) ==
  IF r = "" THEN ""
  ELSE IF Last(r) \in {" ", "\r", "\n", "\t"}
         THEN erase_trailing(SubSeq(r, 1, Len(r) - 1))
         ELSE r

\* ------------------------------------------------------------ the matcher
\* addRule without the test for a comment line.
addRule_keepsComments(rules, rule) ==
  LET r == erase_trailing(rule) IN
    IF r = "" THEN rules
    ELSE LET neg == (Char(r, 1) = "!")
             pat == IF neg THEN SubSeq(r, 2, Len(r)) ELSE r
         IN  Append(rules, [first |-> neg, second |-> pat])

\* GitIgnore::addRule: the rules after adding one raw line.
addRule(rules, rule) ==
  LET r == erase_trailing(rule) IN
    IF r = "" \/ Char(r, 1) = "#" THEN rules
    ELSE LET neg == (Char(r, 1) = "!")
             pat == IF neg THEN SubSeq(r, 2, Len(r)) ELSE r
         IN  Append(rules, [first |-> neg, second |-> pat])

\* GitIgnore::GitIgnore: addRule over the lines, in order.
RECURSIVE GitIgnore(_)
GitIgnore(ls) ==
  IF ls = <<>> THEN <<>>
  ELSE addRule(GitIgnore(SubSeq(ls, 1, Len(ls) - 1)), ls[Len(ls)])

\* foldRule without its second branch: a rule can only set the flag.
foldRule_sticky(ignored, rule, p) ==
  IF rule.first /\ match(p, rule.second) THEN TRUE ELSE ignored

\* The loop body of GitIgnore::isIgnored for one rule.
foldRule(ignored, rule, p) ==
  IF rule.first /\ match(p, rule.second) THEN TRUE
  ELSE IF ~rule.first /\ match(p, rule.second) THEN FALSE
  ELSE ignored

RECURSIVE foldRules(_, _, _)
foldRules(rules, n, p) ==
  IF n = 0 THEN FALSE
  ELSE foldRule(foldRules(rules, n - 1, p), rules[n], p)

\* GitIgnore::isIgnored without the replacement of the backslashes.
GitIgnore_isIgnored_raw(rules, path) == foldRules(rules, Len(rules), path)

\* GitIgnore::isIgnored
GitIgnore_isIgnored(rules, path) == foldRules(rules, Len(rules), replace(path))

\* ---------------------------------------------------------- the file trees
\* The relative paths a tree can hold.
Paths == {"a", "a/b", "a/b/f", "k"}

\* Paths that can only hold a file (they have no child in Paths).
LeafPaths == {"a/b/f", "k"}

\* The root paths the tool is given.
SrcRootPath == "src"
DstRootPath == "dst"

\* fs::path::operator/
PathJoin(root, rel) == root \o "/" \o rel

\* fs::path::parent_path of a relative path; "" is the root itself.
RECURSIVE parent_path(_)
parent_path(p) ==
  IF p = "" THEN ""
  ELSE IF Last(p) = "/" THEN SubSeq(p, 1, Len(p) - 1)
  ELSE parent_path(SubSeq(p, 1, Len(p) - 1))

\* parent_path, tabulated over the paths of the trees.
ParentOf == [p \in Paths |-> parent_path(p)]

\* p and its ancestors below the root.
RECURSIVE ancestors(_)
ancestors(p) == IF p = "" THEN {} ELSE {p} \cup ancestors(parent_path(p))

AncSelfOf == [p \in Paths \cup {""} |-> ancestors(p)]

AncSelf(p) == AncSelfOf[p]

IsAncestor(a, d) == a # d /\ a \in AncSelf(d)

NoEntry == [kind |-> "none", mtime |-> 0, content |-> 0]
NewDir == [kind |-> "dir", mtime |-> 1, content |-> 0]
File(m, c) == [kind |-> "file", mtime |-> m, content |-> c]

EmptyTree == [p \in Paths |-> NoEntry]

\* fs::file_size of a regular file: contents 1 and 2 have the same size.
file_size(e) == (e.content + 1) \div 2

\* fs::exists
exists(t, p) == t[p].kind # "none"

Children(t, d) == {p \in Paths : ParentOf[p] = d /\ exists(t, p)}

WellFormed(t) ==
  \A p \in Paths :
    /\ exists(t, p) /\ ParentOf[p] # "" => t[ParentOf[p]].kind = "dir"
    /\ p \in LeafPaths => t[p].kind # "dir"

\* Source files: any modification time, content 1.
SrcEntries == {NoEntry, NewDir} \cup {File(m, 1) : m \in 1..MaxTime}
DstEntries ==
  {NoEntry, NewDir} \cup {File(m, c) : m \in 1..MaxTime, c \in 1..NumContents}

SrcTrees == {t \in [Paths -> SrcEntries] : WellFormed(t)}
DstTrees == {t \in [Paths -> DstEntries] : WellFormed(t)}

\* ------------------------------------------------------ the mirror engine
\* The value of prev before any invocation has ended.
NoRun == [pc |-> "none", log |-> <<>>, faults |-> {}]

\* isIgnored of sync.cpp: main has set g_ignore to the matcher built from
\* the rule lines before mirror runs, so the pointer is never null here.
isIgnored(p) == GitIgnore_isIgnored(rules_, p)

\* unsigned char values of the characters of path strings
CharCode(c) ==
  CASE c = "/" -> 47 [] c = "a" -> 97 [] c = "b" -> 98 [] c = "d" -> 100
    [] c = "f" -> 102 [] c = "k" -> 107 [] c = "s" -> 115 [] c = "t" -> 116

\* std::string operator>
RECURSIVE StrGreater(_, _)
StrGreater(a, b) ==
  IF a = "" THEN FALSE
  ELSE IF b = "" THEN TRUE
  ELSE IF Char(a, 1) # Char(b, 1)
         THEN CharCode(Char(a, 1)) > CharCode(Char(b, 1))
  ELSE StrGreater(SubSeq(a, 2, Len(a)), SubSeq(b, 2, Len(b)))

\* removalOrder with the comparison reversed.
removalOrder_ascending(a, b) ==
  StrGreater(PathJoin(DstRootPath, b), PathJoin(DstRootPath, a))

\* The comparator mirror hands to std::sort, on the entries' full paths.
removalOrder(a, b) ==
  StrGreater(PathJoin(DstRootPath, a), PathJoin(DstRootPath, b))

\* std::sort of a set of distinct paths under removalOrder.
RECURSIVE sort(_)
sort(S) ==
  IF S = {} THEN <<>>
  ELSE LET m == CHOOSE x \in S : \A y \in S : y = x \/ removalOrder(x, y)
       IN  <<m>> \o sort(S \ {m})

\* collectRemovals without the test of the matcher.
collectRemovals_noIgnore ==
  {p \in Paths : exists(dst, p) /\ ~(srcRoot /\ exists(src, p))}

\* collectRemovals: every destination entry that is not ignored and whose
\* path does not exist under the source root.
collectRemovals ==
  {p \in Paths : /\ exists(dst, p)
                 /\ ~isIgnored(p)
                 /\ ~(srcRoot /\ exists(src, p))}

\* fs::create_directories(root / p) in tree t: fails when p or an ancestor
\* exists and is not a directory, creates the missing ones otherwise.
create_directories(t, p) ==
  IF \E q \in AncSelf(p) : t[q].kind = "file"
  THEN [ok |-> FALSE, tree |-> t]
  ELSE [ok |-> TRUE,
        tree |-> [q \in Paths |->
                    IF q \in AncSelf(p) /\ ~exists(t, q) THEN NewDir ELSE t[q]]]

\* stale without the comparison of the sizes.
stale_noSize(s, d) == d.kind = "none" \/ s.mtime # d.mtime

\* The test that decides a copy (sync.cpp lines 113-115), for a destination
\* entry whose size can be read.
stale(s, d) ==
  \/ d.kind = "none"
  \/ s.mtime # d.mtime
  \/ file_size(s) # file_size(d)

\* The test reaches fs::file_size(dstPath) on a directory, which throws.
sizeThrows(s, d) == d.kind = "dir" /\ s.mtime = d.mtime

\* fs::copy_file(src, dst, overwrite_existing | update_existing) on source
\* file s and destination entry d.  The two options belong to one option
\* group, so the call has undefined behaviour; the builds differ when d is a
\* file that is not older than s: upd tells whether the library lets
\* update_existing decide (it then leaves d untouched and reports no
\* error) or overwrite_existing.  ub tells whether the call showed which.
\* A written file carries the time of the copy, the latest time there is;
\* mirror replaces it right after syncFile returns.
copy_file(s, d, fail, upd) ==
  IF fail \/ d.kind = "dir" THEN [threw |-> TRUE, entry |-> d, ub |-> FALSE]
  ELSE IF d.kind = "file" /\ s.mtime <= d.mtime
         THEN [threw |-> FALSE, ub |-> TRUE,
               entry |-> IF upd = "update" THEN d
                         ELSE File(MaxTime, s.content)]
  ELSE [threw |-> FALSE, entry |-> File(MaxTime, s.content), ub |-> FALSE]

\* syncFile: the copy, then the line it prints.
syncFile(p, s, d, fail, upd) ==
  LET c == copy_file(s, d, fail, upd) IN
    [entry |-> c.entry, ub |-> c.ub,
     line  |-> [tag |-> IF c.threw THEN "ERROR" ELSE "COPY", path |-> p]]

\* The source entries the recursive iterator can produce next: the unvisited
\* children of the deepest directory on the way from cur to the root that
\* still has some.
RECURSIVE nextEntries(_)
nextEntries(d) ==
  IF Children(src, d) \ visited # {} THEN Children(src, d) \ visited
  ELSE IF d = "" THEN {}
  ELSE nextEntries(ParentOf[d])

\* What one iteration of the copy pass did when it never reached the copy.
NoCopy(t, threw) ==
  [tree |-> t, out |-> <<>>, threw |-> threw, tried |-> FALSE,
   fault |-> FALSE, ub |-> FALSE]

\* A copy pass that, meeting a destination directory where the source has a
\* file, removes the directory and leaves the copy to the next run; it
\* creates the directories and copies nothing else.
copyEntry_replacing(p, fail, upd) ==
  IF isIgnored(p) THEN NoCopy(dst, FALSE)
  ELSE IF src[p].kind = "dir" THEN
    LET r == create_directories(dst, p) IN NoCopy(r.tree, ~r.ok)
  ELSE IF dst[p].kind = "dir" /\ Children(dst, p) = {}
    THEN [tree |-> [dst EXCEPT ![p] = NoEntry],
          out |-> <<[tag |-> "DEL D", path |-> p]>>, threw |-> FALSE,
          tried |-> FALSE, fault |-> FALSE, ub |-> FALSE]
  ELSE NoCopy(dst, FALSE)

\* The body of the copy pass's loop for source entry p: the destination
\* tree afterwards, the lines printed, whether an exception left mirror,
\* whether the copy branch was entered, and whether the environment made
\* the copy fail.
copyEntry(p, fail, upd) ==
  LET s == src[p]
      d == dst[p]
  IN
  IF isIgnored(p) THEN NoCopy(dst, FALSE)
  ELSE IF s.kind = "dir" THEN
    LET r == create_directories(dst, p) IN NoCopy(r.tree, ~r.ok)
  ELSE IF sizeThrows(s, d) THEN NoCopy(dst, TRUE)
  ELSE IF ~stale(s, d) THEN NoCopy(dst, FALSE)
  ELSE
    LET r == create_directories(dst, ParentOf[p]) IN
    IF ~r.ok
    THEN [tree |-> dst, out |-> <<>>, threw |-> TRUE, tried |-> TRUE,
          fault |-> FALSE, ub |-> FALSE]
    ELSE
      LET c == syncFile(p, s, r.tree[p], fail, upd)
          t == [r.tree EXCEPT ![p] = c.entry]
          f == fail /\ d.kind # "dir"
      IN  \* fs::last_write_time(dstPath, ...) throws when dstPath is absent
          IF c.entry.kind = "none"
          THEN [tree |-> t, out |-> <<c.line>>, threw |-> TRUE,
                tried |-> TRUE, fault |-> f, ub |-> c.ub]
          ELSE [tree |-> [t EXCEPT ![p].mtime = s.mtime],
                out |-> <<c.line>>, threw |-> FALSE, tried |-> TRUE,
                fault |-> f, ub |-> c.ub]

\* MirrorStart with line 86 creating the source root instead.
MirrorStart_createsSource ==
  /\ pc = "start"
  /\ srcRoot' = TRUE
  /\ toRemove' = sort(collectRemovals)
  /\ ri' = 1
  /\ pc' = "remove"
  /\ UNCHANGED <<mvars, dstRoot, src, dst, lib, run, visited, cur, log,
                 attempts, faults, prev>>

\* mirror, lines 86-92: create the destination root, collect and sort.
MirrorStart ==
  /\ pc = "start"
  /\ dstRoot' = TRUE
  /\ toRemove' = sort(collectRemovals)
  /\ ri' = 1
  /\ pc' = "remove"
  /\ UNCHANGED <<mvars, srcRoot, src, dst, lib, run, visited, cur, log,
                 attempts, faults, prev>>

\* mirror, lines 93-101: one iteration of the removal loop.  fs::remove
\* throws on a directory that is not empty.
RemoveNext ==
  /\ pc = "remove"
  /\ ri <= Len(toRemove)
  /\ LET p == toRemove[ri] IN
       IF dst[p].kind = "dir" /\ Children(dst, p) # {}
       THEN /\ pc' = "aborted"
            /\ UNCHANGED <<dst, log, ri>>
       ELSE /\ dst' = [dst EXCEPT ![p] = NoEntry]
            /\ log' = Append(log, [tag  |-> IF dst[p].kind = "dir"
                                             THEN "DEL D" ELSE "DEL F",
                                   path |-> p])
            /\ ri' = ri + 1
            /\ pc' = pc
  /\ UNCHANGED <<mvars, srcRoot, dstRoot, src, lib, run, toRemove, visited,
                 cur, attempts, faults, prev>>

\* mirror, line 104: the iterator over the source root is constructed; it
\* throws when the root does not exist.
BeginCopy ==
  /\ pc = "remove"
  /\ ri > Len(toRemove)
  /\ pc' = IF srcRoot THEN "copy" ELSE "aborted"
  /\ visited' = {}
  /\ cur' = ""
  /\ UNCHANGED <<mvars, fvars, run, toRemove, ri, log, attempts, faults, prev>>

\* The behaviours of copy_file the build can still show: lib is "unknown"
\* until a call has shown it, and the same from then on.
LibChoices == IF lib = "unknown" THEN {"update", "overwrite"} ELSE {lib}

\* mirror, lines 104-122: one iteration of the copy pass.
CopyNext ==
  /\ pc = "copy"
  /\ \E p \in nextEntries(cur), fail \in BOOLEAN, upd \in LibChoices :
       LET r == copyEntry(p, fail, upd) IN
         /\ lib' = IF r.ub THEN upd ELSE lib
         /\ visited' = visited \cup {p}
         /\ cur' = p
         /\ dst' = r.tree
         /\ log' = log \o r.out
         /\ attempts' = IF r.tried THEN attempts \cup {p} ELSE attempts
         /\ faults' = IF r.fault THEN faults \cup {p} ELSE faults
         /\ pc' = IF r.threw THEN "aborted" ELSE "copy"
  /\ UNCHANGED <<mvars, srcRoot, dstRoot, src, run, toRemove, ri, prev>>

\* mirror returns; main prints the completion line and exits.
Finish ==
  /\ pc = "copy"
  /\ nextEntries(cur) = {}
  /\ pc' = "done"
  /\ UNCHANGED <<mvars, fvars, evars>>

\* The tool is invoked again on the same roots with the same rules file.
NextRun ==
  /\ pc \in {"done", "aborted"}
  /\ run < MaxRuns
  /\ run' = run + 1
  /\ pc' = "start"
  /\ prev' = [pc |-> pc, log |-> log, faults |-> faults]
  /\ log' = <<>>
  /\ attempts' = {}
  /\ faults' = {}
  /\ toRemove' = <<>>
  /\ ri' = 0
  /\ visited' = {}
  /\ cur' = ""
  /\ UNCHANGED <<mvars, fvars>>

\* The rules files of the mirror specification.
RuleFiles == {<<>>, <<"!b", "k">>, <<"!a", "a/b/f">>}

Init ==
  /\ lines \in RuleFiles
  /\ li = Len(lines)
  /\ rules_ = GitIgnore(lines)
  /\ qpath = ""
  /\ qres = FALSE
  /\ pc = "start"
  /\ srcRoot \in BOOLEAN
  /\ dstRoot \in BOOLEAN
  /\ src \in SrcTrees
  /\ dst \in DstTrees
  /\ lib = "unknown"
  /\ srcRoot = FALSE => src = EmptyTree
  /\ dstRoot = FALSE => dst = EmptyTree
  /\ run = 1
  /\ toRemove = <<>>
  /\ ri = 0
  /\ visited = {}
  /\ cur = ""
  /\ log = <<>>
  /\ attempts = {}
  /\ faults = {}
  /\ prev = NoRun

Next == MirrorStart \/ RemoveNext \/ BeginCopy \/ CopyNext \/ Finish \/ NextRun

Spec == Init /\ [][Next]_vars

\* ----------------------------------------------- the matcher specification
RawLines ==
  {"tmp", "!tmp", "a/tmp", "!file", "#tmp", " \t", "!tmp \r\n", "!"}

QueryPaths == {"a/tmp/file.txt", "tmpfile.txt", "a\\tmp\\x", "b.txt"}

LineLists == UNION {[1..n -> RawLines] : n \in 0..MaxLines}

InitMatcher ==
  /\ lines \in LineLists
  /\ li = 0
  /\ rules_ = <<>>
  /\ qpath \in QueryPaths
  /\ qres = FALSE
  /\ pc = "ctor"
  /\ srcRoot = TRUE /\ dstRoot = TRUE /\ lib = "unknown"
  /\ src = EmptyTree /\ dst = EmptyTree
  /\ run = 0 /\ toRemove = <<>> /\ ri = 0
  /\ visited = {} /\ cur = "" /\ log = <<>>
  /\ attempts = {} /\ faults = {} /\ prev = NoRun

\* One iteration of the constructor's loop.
AddRuleStep ==
  /\ pc = "ctor"
  /\ li < Len(lines)
  /\ li' = li + 1
  /\ rules_' = addRule(rules_, lines[li + 1])
  /\ UNCHANGED <<lines, qpath, qres, pc, fvars, evars>>

\* A query of the constructed matcher.
Query ==
  /\ pc = "ctor"
  /\ li = Len(lines)
  /\ qres' = GitIgnore_isIgnored(rules_, qpath)
  /\ pc' = "queried"
  /\ UNCHANGED <<lines, li, rules_, qpath, fvars, evars>>

NextMatcher == AddRuleStep \/ Query

SpecMatcher == InitMatcher /\ [][NextMatcher]_vars

\* ================================================================= claims
Tags(l, ts) == SelectSeq(l, LAMBDA e : e.tag \in ts)

\* ---------------------------------------------------------------------- C1
\* C1: with an empty rule set and no copy made to fail by the environment,
\* when mirror finishes the destination holds exactly the source's relative
\* paths with the same entry types (also when a destination entry had the
\* other type), and every file has the source file's content, size and
\* modification time.
C1_SameEntries == \A p \in Paths : dst[p].kind = src[p].kind

C1_SameFiles ==
  \A p \in Paths :
    src[p].kind = "file" /\ dst[p].kind = "file" =>
      /\ dst[p].content = src[p].content
      /\ file_size(dst[p]) = file_size(src[p])
      /\ dst[p].mtime = src[p].mtime

C1_Finished ==
  lines = <<>> /\ srcRoot /\ run = 1 /\ pc = "done" /\ faults = {}

\* C1, the entries: the destination's paths and entry types are the source's.
C1_MirrorIsExact == C1_Finished => C1_SameEntries

\* C1, the files: every file the two trees share is the source's file.
C1_FilesAreSource == C1_Finished => C1_SameFiles

\* ---------------------------------------------------------------------- C2
\* C2: the query starts from excluded = false and folds the kept rules in
\* order; a rule whose pattern is a substring of the normalized path sets
\* excluded to true when it is non-negated and to false when it is negated.
RECURSIVE C2_Fold(_, _, _)
C2_Fold(rules, n, p) ==
  IF n = 0 THEN FALSE
  ELSE IF match(p, rules[n].second) THEN ~rules[n].first
  ELSE C2_Fold(rules, n - 1, p)

C2_QueryFoldsRules ==
  pc = "queried" => qres = C2_Fold(rules_, Len(rules_), replace(qpath))

\* ---------------------------------------------------------------------- C3
\* C3: a relative path whose last matching rule is a non-negated rule is
\* neither deleted from the destination nor copied from the source.
C3_ActiveExclusion(p) ==
  \E i \in 1..Len(rules_) :
    /\ match(replace(p), rules_[i].second)
    /\ ~rules_[i].first
    /\ \A j \in (i + 1)..Len(rules_) : ~match(replace(p), rules_[j].second)

C3_ExcludedUntouched ==
  \A i \in 1..Len(log) :
    log[i].tag \in {"DEL F", "DEL D", "COPY"}
      => ~C3_ActiveExclusion(log[i].path)

\* ---------------------------------------------------------------------- C4
\* C4: when mirror has run to completion once, a second run with the source
\* and the rules unchanged emits no [COPY] and no [DEL] line.
C4_SecondRunIdle ==
  (run = 2 /\ prev.pc = "done" /\ prev.faults = {} /\ faults = {})
    => Tags(log, {"COPY", "DEL F", "DEL D"}) = <<>>

\* ---------------------------------------------------------------------- C5
\* C5: when the copy pass is handed a source file the matcher does not
\* exclude, it enters the copy branch if and only if the destination entry
\* is absent, or its modification time differs from the source's, or its
\* size differs from the source's; a destination file with the source's
\* size and modification time is left as it is.
C5_Stale(p) ==
  \/ dst[p].kind = "none"
  \/ dst[p].mtime # src[p].mtime
  \/ dst[p].kind = "file" /\ (dst[p].content + 1) \div 2 # (src[p].content + 1) \div 2

C5_CopyIffStale ==
  [][\A p \in Paths :
       (pc = "copy" /\ p \notin visited /\ p \in visited'
          /\ src[p].kind = "file" /\ ~isIgnored(p))
         => /\ (p \in attempts') <=> C5_Stale(p)
            /\ ~C5_Stale(p) => (dst' = dst /\ log' = log)]_vars

\* One run has copied a stale file and skipped an up-to-date one.
C5_Witness ==
  /\ pc = "copy"
  /\ \E p \in attempts : [tag |-> "COPY", path |-> p] \in {log[i] : i \in 1..Len(log)}
  /\ \E q \in visited \ attempts :
       /\ src[q].kind = "file" /\ dst[q].kind = "file" /\ ~isIgnored(q)
       /\ dst[q].mtime = src[q].mtime
       /\ file_size(dst[q]) = file_size(src[q])

\* ---------------------------------------------------------------------- C6
\* C6: when the copy of one file fails in the copy pass, the failure is
\* reported for that file and mirror does not abort: the pass goes on.
C6_FailedCopyIsContained ==
  [][(pc = "copy" /\ Len(log') > Len(log) /\ log'[Len(log')].tag = "ERROR")
       => pc' = "copy"]_vars

\* ---------------------------------------------------------------------- C7
\* C7: a file whose copy the environment made fail in one run, and which
\* is therefore not synchronized, is copied again by the next run: the
\* staleness test still decides to copy it.
C7_FailedCopyRetried ==
  \A p \in Paths :
    (run = 2 /\ p \in prev.faults /\ p \in visited
       /\ dst[p].content # src[p].content)
      => p \in attempts

\* ---------------------------------------------------------------------- C8
\* C8: every directory on the removal list is empty at the moment its
\* removal is executed.
C8_DirEmptyAtRemoval ==
  (pc = "remove" /\ ri <= Len(toRemove) /\ dst[toRemove[ri]].kind = "dir")
    => Children(dst, toRemove[ri]) = {}

\* ---------------------------------------------------------------------- C9
\* C9: of two paths on the removal list of which one is an ancestor of the
\* other, the descendant is removed first: no ancestor stands before a
\* descendant in the list, and the removals follow the list.
C9_Removed == Tags(log, {"DEL F", "DEL D"})

C9_ChildrenFirst ==
  /\ \A i, j \in 1..Len(toRemove) :
       i < j => ~IsAncestor(toRemove[i], toRemove[j])
  /\ \A i, j \in 1..Len(C9_Removed) :
       i < j => ~IsAncestor(C9_Removed[i].path, C9_Removed[j].path)
  /\ pc = "remove" =>
       /\ Len(C9_Removed) = ri - 1
       /\ \A i \in 1..(ri - 1) : C9_Removed[i].path = toRemove[i]

\* A destination-only a/b/f has been removed in the order a/b/f, a/b, a.
C9_Witness ==
  /\ Len(log) = 3
  /\ log[1] = [tag |-> "DEL F", path |-> "a/b/f"]
  /\ log[2] = [tag |-> "DEL D", path |-> "a/b"]
  /\ log[3] = [tag |-> "DEL D", path |-> "a"]

\* --------------------------------------------------------------------- C10
\* C10: a later matching rule always wins, whatever its direction: the
\* result on rules R followed by r is the result on r alone when r's
\* pattern is a substring of the (normalized) path and the result on R when
\* it is not; when no rule matches the result is false.
C10_LastMatchWins ==
  pc = "queried" =>
    LET n == Len(rules_)
        p == replace(qpath)
    IN  /\ n > 0 =>
             qres = IF match(p, rules_[n].second)
                      THEN GitIgnore_isIgnored(<<rules_[n]>>, qpath)
                      ELSE GitIgnore_isIgnored(SubSeq(rules_, 1, n - 1), qpath)
        /\ (\A i \in 1..n : ~match(p, rules_[i].second)) => qres = FALSE

\* The last rule matches the path and reverses an earlier matching rule.
C10_Witness ==
  /\ pc = "queried"
  /\ Len(rules_) >= 2
  /\ match(replace(qpath), rules_[Len(rules_)].second)
  /\ \E i \in 1..(Len(rules_) - 1) :
       /\ match(replace(qpath), rules_[i].second)
       /\ rules_[i].first # rules_[Len(rules_)].first
  /\ qres = rules_[Len(rules_)].first

\* --------------------------------------------------------------------- C11
\* The lines one step of a pass adds to the log.
C11_New == SubSeq(log', Len(log) + 1, Len(log'))

C11_Said(t, p) ==
  \E i \in 1..Len(C11_New) : C11_New[i] = [tag |-> t, path |-> p]

\* What C11 asks of one step of the removal loop or of the copy pass.
C11_Step ==
  pc \in {"remove", "copy"} =>
       \A p \in Paths :
         /\ C11_Said("COPY", p) =>
              dst'[p].kind = "file" /\ dst'[p].content = src[p].content
         /\ (dst'[p].kind = "file" /\ dst'[p].content # dst[p].content)
              => C11_Said("COPY", p)
         /\ C11_Said("DEL F", p)
              <=> (dst[p].kind = "file" /\ dst'[p].kind = "none")
         /\ C11_Said("DEL D", p)
              <=> (dst[p].kind = "dir" /\ dst'[p].kind = "none")
         /\ C11_Said("ERROR", p) =>
              /\ p \in attempts'
              /\ dst'[p].kind = dst[p].kind
              /\ dst'[p].content = dst[p].content
         /\ (p \in faults' /\ p \notin faults) => C11_Said("ERROR", p)

\* C11: the log matches the actions, in both directions.  A step prints
\* [COPY] for a file only when the destination then holds the source's
\* content, and every change of a destination file's content is printed;
\* it prints [DEL F] / [DEL D] exactly when it removed a file / a
\* directory; it prints [ERROR] only when the copy of that file was tried
\* and wrote nothing, and always when the copy failed.
C11_LogMatchesActions == [][C11_Step]_vars

\* --------------------------------------------------------------------- C12
\* The index of the last character of l that is no space, tab, CR or LF;
\* 0 when there is none.
C12_End(l) ==
  LET keep == {i \in 1..Len(l) : Char(l, i) \notin {" ", "\t", "\r", "\n"}}
  IN  IF keep = {} THEN 0 ELSE CHOOSE i \in keep : \A j \in keep : j <= i

C12_Strip(l) == SubSeq(l, 1, C12_End(l))

C12_Kept(l) == C12_Strip(l) # "" /\ Char(C12_Strip(l), 1) # "#"

C12_Rule(l) ==
  LET t == C12_Strip(l) IN
    IF Char(t, 1) = "!"
      THEN [first |-> TRUE, second |-> SubSeq(t, 2, Len(t))]
      ELSE [first |-> FALSE, second |-> t]

\* The rules of the kept lines among ls, in the order of the lines.
C12_Rules(ls) ==
  LET kept == SelectSeq(ls, C12_Kept)
  IN  [i \in 1..Len(kept) |-> C12_Rule(kept[i])]

\* C12: after the constructor has consumed li lines, the rules are those of
\* the kept lines among them, in the order of the lines: trailing spaces,
\* tabs, CR and LF are stripped; an empty or '#' line gives no rule, a '!'
\* line a negated rule on the remainder, any other line a non-negated rule
\* on the whole stripped text.
C12_ConstructionKeepsRules == rules_ = C12_Rules(SubSeq(lines, 1, li))

\* A comment, a negated line with trailing CR LF and a plain line have
\* given two rules, in that order.
C12_Witness ==
  /\ lines = <<"#tmp", "!tmp \r\n", "a/tmp">>
  /\ li = 3
  /\ rules_ = <<[first |-> TRUE, second |-> "tmp"],
                [first |-> FALSE, second |-> "a/tmp"]>>

\* --------------------------------------------------------------------- C13
\* C13: the query answers the same for a path and for the path with each
\* backslash replaced by a forward slash, and what the rules are compared
\* with, in the matcher and through isIgnored of sync.cpp, is the path
\* after the replacement.
C13_SeparatorIndependent ==
  /\ pc = "queried" =>
       /\ qres = GitIgnore_isIgnored(rules_, replace(qpath))
       /\ qres = foldRules(rules_, Len(rules_), replace(qpath))
  /\ \A p \in QueryPaths :
       /\ isIgnored(p) = isIgnored(replace(p))
       /\ isIgnored(p) = foldRules(rules_, Len(rules_), replace(p))

\* A path with backslashes has been queried, and a rule whose pattern has
\* a forward slash decided: the answer is not the one the rules give on the
\* path as it was handed in.
C13_Witness ==
  /\ pc = "queried"
  /\ qpath = "a\\tmp\\x"
  /\ \E i \in 1..Len(rules_) :
       match(replace(qpath), rules_[i].second) /\ ~match(qpath, rules_[i].second)
  /\ qres # foldRules(rules_, Len(rules_), qpath)

\* --------------------------------------------------------------------- C14
\* C14: a file for which this run printed [COPY] has, in the destination,
\* the source file's content, size and modification time, whatever the
\* destination held before (nothing, an older file, a file of the same time
\* and another size, a newer file).
C14_CopiedIsSource ==
  \A i \in 1..Len(log) :
    log[i].tag = "COPY" =>
      LET s == src[log[i].path]
          d == dst[log[i].path]
      IN  /\ d.kind = "file"
          /\ d.content = s.content
          /\ file_size(d) = file_size(s)
          /\ d.mtime = s.mtime

\* --------------------------------------------------------------------- C15
\* The path sourceRoot/p exists.
C15_InSource(p) == srcRoot /\ exists(src, p)

C15_Listed(l) == {l[i] : i \in 1..Len(l)}

\* What C15 asks of one step of mirror up to the end of the removal loop.
C15_Step ==
  /\ pc = "start" =>
       \A p \in Paths :
         p \in C15_Listed(toRemove')
           <=> (exists(dst, p) /\ ~isIgnored(p) /\ ~C15_InSource(p))
  /\ pc \in {"start", "remove"} =>
       \A p \in Paths :
         (isIgnored(p) \/ C15_InSource(p)) => dst'[p] = dst[p]

\* C15: a destination entry is put on the removal list if and only if the
\* matcher reports its relative path not excluded and the path does not
\* exist under the source root; the deletion pass leaves every entry whose
\* path exists in the source, and every entry the matcher reports excluded,
\* as it is.
C15_ListedIffUnmatched == [][C15_Step]_vars

\* The removal loop has run to its end: it removed an entry, kept an entry
\* the matcher reports excluded that the source does not have, and kept an
\* entry the source has.
C15_Witness ==
  /\ pc = "remove"
  /\ ri > Len(toRemove)
  /\ Tags(log, {"DEL F", "DEL D"}) # <<>>
  /\ \E p \in Paths : exists(dst, p) /\ isIgnored(p) /\ ~C15_InSource(p)
  /\ \E p \in Paths : exists(dst, p) /\ ~isIgnored(p) /\ C15_InSource(p)

\* --------------------------------------------------------------------- C16
C16_Deleted == {p \in Paths : exists(dst, p) /\ ~exists(dst', p)}

\* The entries a step created or wrote.
C16_Written == {p \in Paths : exists(dst', p) /\ dst'[p] # dst[p]}

\* What C16 asks of one step.
C16_Step ==
  /\ C16_Deleted # {} =>
       /\ pc = "remove"
       /\ visited = {} /\ attempts = {}
       /\ C16_Written = {}
       /\ C16_Deleted \subseteq C15_Listed(toRemove)
  /\ C16_Written # {} => pc = "copy" /\ ri > Len(toRemove)
  /\ pc = "remove" => toRemove' = toRemove

\* C16: within one run every deletion comes before the first directory
\* creation or file copy of the copy pass.  A step that deletes is a step
\* of the removal loop, taken before the copy pass has been handed any
\* entry, and deletes only entries of the list, which no longer changes;
\* a step that creates or writes an entry is a step of the copy pass, taken
\* when the whole list has been executed; in the log no [DEL] line follows
\* a [COPY] or [ERROR] line.
C16_DeletionsBeforeCopies ==
  /\ [][C16_Step]_vars
  /\ [](\A i, j \in 1..Len(log) :
          (i < j /\ log[i].tag \in {"COPY", "ERROR"})
            => log[j].tag \notin {"DEL F", "DEL D"})

\* One run has removed an entry, then created a directory and copied a file.
C16_Witness ==
  /\ run = 1
  /\ Len(log) >= 2
  /\ log[1].tag \in {"DEL F", "DEL D"}
  /\ log[Len(log)].tag = "COPY"
  /\ \E p \in visited : src[p].kind = "dir" /\ dst[p].kind = "dir"
                          /\ p \notin C15_Listed(toRemove)

\* --------------------------------------------------------------------- C17
\* C17: when the source root does not exist, the run ends with the error
\* propagated (it never reaches its end) and no step of it deletes or
\* modifies a destination entry.
C17_MissingSourceIsHarmless ==
  [][~srcRoot => (dst' = dst /\ pc' # "done")]_vars

\* --------------------------------------------------------------------- C18
\* C18: no step of any run, be it successful, failing for one file or
\* aborted, creates, deletes or modifies an entry under the source root,
\* the modification times of the source files included.
C18_SourceUntouched == [][src' = src /\ srcRoot' = srcRoot]_vars

\* A run aborted after a deletion and a failed copy, and the next run,
\* which copied a file, has finished; the source has files.
C18_Witness ==
  /\ run = 2
  /\ prev.pc = "aborted"
  /\ Tags(prev.log, {"DEL F", "DEL D"}) # <<>>
  /\ Tags(prev.log, {"ERROR"}) # <<>>
  /\ pc = "done"
  /\ Tags(log, {"COPY"}) # <<>>

\* --------------------------------------------------------------------- C19
\* C19: no step of the copy pass creates in the destination an entry whose
\* relative path the matcher reports excluded, a directory excluded above
\* a file that a later rule includes again among them.
C19_NoExcludedCreated ==
  [][pc = "copy" =>
       \A p \in Paths :
         (~exists(dst, p) /\ exists(dst', p)) => ~isIgnored(p)]_vars

====
